---- MODULE Spec2Model ----
(***************************************************************************)
(* A model of the sensor-table backend: csv_processor.rs (read_csv,        *)
(* read_merge_csvs) and lib.rs (load_csv, get_loaded_paths, get_data,      *)
(* calculate_new_sensor) around the session Mutex<Option<SessionData>>.    *)
(*                                                                         *)
(* Conventions.  Rust indices are 0-based, sequences here are 1-based, so  *)
(* an index i of the source is i+1 here and Option<usize> is a number with *)
(* 0 for None.  Option<T> is <<>> for None and <<v>> for Some(v).  An f64  *)
(* is a pair <<n, d>>: the rational n/d in lowest terms with d > 0, or     *)
(* NaN == <<0, 0>>.  Result<T, String> is a record [ok, err, ...].         *)
(***************************************************************************)
EXTENDS Integers, Sequences, FiniteSets, TLC

VARIABLES
    disk,        \* path -> file content (the file system the commands read)
    paths,       \* SpecMerge: the path list handed to read_merge_csvs
    parsed,      \* SpecMerge: result of read_csv(paths[0]), or NotCalled
    merged,      \* SpecMerge: result of read_merge_csvs(paths), or NotCalled
    session,     \* AppState: the Option<SessionData> inside the Mutex
    poisoned,    \* whether the Mutex is poisoned (a holder panicked)
    loading,     \* worker -> Option of the table a load_csv call in flight
                 \* has read and not yet stored
    stream,      \* Option of the get_data call in flight; it holds the lock
    events,      \* what the get_data call in flight has emitted to the window
    ret,         \* what the most recently returned command returned
    last_loaded  \* history: the paths of the most recent load_csv that succeeded

mergeVars == <<paths, parsed, merged>>

sessionVars == <<session, poisoned, loading, stream, events, ret, last_loaded>>

vars == <<disk, mergeVars, sessionVars>>

-----------------------------------------------------------------------------
(* Option<T> *)

None == <<>>

Some(v) == <<v>>

IsSome(o) == Len(o) = 1

Unwrap(o) == o[1]

-----------------------------------------------------------------------------
(* f64 *)

NaN == <<0, 0>>

IsNaN(x) == x[2] = 0

Abs(n) == IF n < 0 THEN -n ELSE n

RECURSIVE Gcd(_, _)
Gcd(a, b) == IF b = 0 THEN a ELSE Gcd(b, a % b)

\* the rational n/d (d # 0) in lowest terms with a positive denominator
Ratio(n, d) ==
    LET g == Gcd(Abs(n), Abs(d))
        s == IF d < 0 THEN -1 ELSE 1
    IN  <<(s * n) \div g, (s * d) \div g>>

F(n) == <<n, 1>>

FAdd(x, y) ==
    IF IsNaN(x) \/ IsNaN(y) THEN NaN
    ELSE Ratio(x[1] * y[2] + y[1] * x[2], x[2] * y[2])

FSub(x, y) ==
    IF IsNaN(x) \/ IsNaN(y) THEN NaN
    ELSE Ratio(x[1] * y[2] - y[1] * x[2], x[2] * y[2])

FMul(x, y) ==
    IF IsNaN(x) \/ IsNaN(y) THEN NaN
    ELSE Ratio(x[1] * y[1], x[2] * y[2])

\* callers guard y # 0.0; NaN # 0.0 is true, so a NaN divisor is not guarded
FDiv(x, y) ==
    IF IsNaN(x) \/ IsNaN(y) \/ y[1] = 0 THEN NaN
    ELSE Ratio(x[1] * y[2], x[2] * y[1])

\* x != 0.0 of IEEE 754: true of NaN
FNonZero(x) == IsNaN(x) \/ x[1] # 0

\* a.partial_cmp(b): "lt", "eq", "gt", or "none" when either side is NaN
partial_cmp(x, y) ==
    IF IsNaN(x) \/ IsNaN(y) THEN "none"
    ELSE IF x[1] * y[2] < y[1] * x[2] THEN "lt"
    ELSE IF x[1] * y[2] > y[1] * x[2] THEN "gt"
    ELSE "eq"

-----------------------------------------------------------------------------
(* Strings: the byte content, trimming and case folding of the texts the   *)
(* model uses.                                                             *)

\* the UTF-8 bytes of a text (String's Ord compares these lexicographically)
Bytes(s) ==
    CASE s = "t1"  -> <<116, 49>>
      [] s = "t10" -> <<116, 49, 48>>
      [] s = "t2"  -> <<116, 50>>
      [] s = "t3"  -> <<116, 51>>
      [] s = "t4"  -> <<116, 52>>
      [] s = "t5"  -> <<116, 53>>
      [] s = " t1" -> <<32, 116, 49>>
      [] s = " "   -> <<32>>
      [] OTHER     -> <<>>

RECURSIVE SeqLess(_, _)
SeqLess(a, b) ==
    IF Len(b) = 0 THEN FALSE
    ELSE IF Len(a) = 0 THEN TRUE
    ELSE IF Head(a) # Head(b) THEN Head(a) < Head(b)
    ELSE SeqLess(Tail(a), Tail(b))

\* a < b of String
StrLess(a, b) == SeqLess(Bytes(a), Bytes(b))

\* str::trim
Trim(s) ==
    CASE s = " "   -> ""
      [] s = " A " -> "A"
      [] s = " t1" -> "t1"
      [] s = " 7"  -> "7"
      [] OTHER     -> s

\* str::to_lowercase (Unicode)
to_lowercase(s) ==
    CASE s = "Time"      -> "time"
      [] s = "Timestamp" -> "timestamp"
      [] s = "TIME"      -> "time"
      [] s = "A"         -> "a"
      [] s = "B"         -> "b"
      [] s = "C"         -> "c"
      [] s = "É"         -> "é"
      [] OTHER           -> s

\* u8::to_ascii_lowercase on every byte: non-ASCII letters are left alone
to_ascii_lowercase(s) ==
    IF s = "É" THEN s ELSE to_lowercase(s)

eq_ignore_ascii_case(a, b) == to_ascii_lowercase(a) = to_ascii_lowercase(b)

\* std::str::from_utf8(field).unwrap_or("")
BadUtf8 == "<invalid utf-8>"

from_utf8_or_empty(field) == IF field = BadUtf8 THEN "" ELSE field

\* the decimal texts the model writes into files, with their values
ParseRange == -9 .. 40

\* field_str.parse::<f64>().ok(): no trimming, "NaN" parses to NaN
parse_f64(s) ==
    IF s = "NaN" THEN Some(NaN)
    ELSE IF \E n \in ParseRange : ToString(n) = s
         THEN Some(F(CHOOSE n \in ParseRange : ToString(n) = s))
         ELSE None

-----------------------------------------------------------------------------
(* Result<ProcessedData, String> *)

EmptyTable == [headers |-> <<>>, rows |-> <<>>]

Ok(data) == [ok |-> TRUE, err |-> "", data |-> data]

Err(msg) == [ok |-> FALSE, err |-> msg, data |-> EmptyTable]

\* iter().position(..) over the flags "the predicate holds of element i":
\* the 1-based position of the first TRUE, 0 when there is none
position(flags) ==
    LET hits == {i \in 1 .. Len(flags) : flags[i]}
    IN  IF hits = {} THEN 0
        ELSE CHOOSE i \in hits : \A j \in hits : i <= j

-----------------------------------------------------------------------------
(* csv_processor.rs: read_csv *)

is_timestamp(h) ==
    eq_ignore_ascii_case(h, "timestamp") \/ eq_ignore_ascii_case(h, "time")

header_list(file) == [i \in 1 .. Len(file.headers) |-> Trim(file.headers[i])]

timestamp_idx(hl) == position([i \in 1 .. Len(hl) |-> is_timestamp(hl[i])])

\* rdr.read_byte_record(..)?: the csv reader is built with its defaults
\* (flexible = false), so a record whose field count differs from the header
\* row's is the error UnequalLengths
UnequalLengths(file) ==
    \E r \in 1 .. Len(file.rows) : Len(file.rows[r]) # Len(file.headers)

\* the closure of the par_iter().map: one raw record to one CsvRecord
ParseField(field, isTs) ==
    LET field_str == from_utf8_or_empty(field)
    IN  IF isTs THEN None
        ELSE IF Trim(field_str) = "" THEN None
        ELSE parse_f64(field_str)

ParseTimestamp(raw, tsIdx) ==
    IF tsIdx >= 1 /\ tsIdx <= Len(raw)
       /\ Trim(from_utf8_or_empty(raw[tsIdx])) # ""
    THEN Some(from_utf8_or_empty(raw[tsIdx]))
    ELSE None

ParseRecord(raw, tsIdx) ==
    [timestamp |-> ParseTimestamp(raw, tsIdx),
     values    |-> [i \in 1 .. Len(raw) |-> ParseField(raw[i], i = tsIdx)]]

read_csv(file) ==
    IF file.kind = "noopen" THEN Err("open failed")
    ELSE IF file.kind = "badheader" THEN Err("header unreadable")
    ELSE IF UnequalLengths(file) THEN Err("unequal lengths")
    ELSE LET hl == header_list(file)
             ti == timestamp_idx(hl)
         IN  Ok([headers |-> hl,
                 rows    |-> [r \in 1 .. Len(file.rows) |->
                                 ParseRecord(file.rows[r], ti)]])

-----------------------------------------------------------------------------
(* csv_processor.rs: read_merge_csvs *)

\* step 1: datasets.push(read_csv(path)?) for every path, in order; the
\* first error is returned.  The result is [ok, err, datasets].
RECURSIVE ReadAll(_, _, _, _)
ReadAll(fs, ps, i, acc) ==
    IF i > Len(ps) THEN [ok |-> TRUE, err |-> "", datasets |-> acc]
    ELSE LET r == read_csv(fs[ps[i]])
         IN  IF r.ok THEN ReadAll(fs, ps, i + 1, Append(acc, r.data))
             ELSE [ok |-> FALSE, err |-> r.err, datasets |-> <<>>]

canonical_ts_header(datasets) ==
    LET hs == datasets[1].headers
        p  == position([i \in 1 .. Len(hs) |-> is_timestamp(hs[i])])
    IN  IF p # 0 THEN datasets[1].headers[p] ELSE "timestamp"

\* the inner loop "for h in &ds.headers" of step 2, on the pair
\* [gh |-> global_headers, seen |-> seen_headers]
RECURSIVE AddHeaders(_, _, _)
AddHeaders(hs, i, st) ==
    IF i > Len(hs) THEN st
    ELSE LET h == hs[i]
         IN  IF is_timestamp(h) THEN AddHeaders(hs, i + 1, st)
             ELSE IF to_lowercase(h) \notin st.seen
             THEN AddHeaders(hs, i + 1,
                      [gh   |-> Append(st.gh, h),
                       seen |-> st.seen \cup {to_lowercase(h)}])
             ELSE AddHeaders(hs, i + 1, st)

RECURSIVE AddDatasets(_, _, _)
AddDatasets(datasets, d, st) ==
    IF d > Len(datasets) THEN st
    ELSE AddDatasets(datasets, d + 1, AddHeaders(datasets[d].headers, 1, st))

global_headers(datasets) ==
    LET c == canonical_ts_header(datasets)
    IN  AddDatasets(datasets, 1,
            [gh |-> <<c>>, seen |-> {to_lowercase(c)}]).gh

\* a col_map that takes every column's global index to be its local one
col_map_same_index(hs, gh) == [i \in 1 .. Len(hs) |-> i]

\* local_idx -> global_idx; global index 0 of the source is 1 here
col_map(hs, gh) ==
    [i \in 1 .. Len(hs) |->
        IF is_timestamp(hs[i]) THEN 1
        ELSE LET pos == position([g \in 1 .. Len(gh) |->
                                     eq_ignore_ascii_case(gh[g], hs[i])])
             IN  IF pos # 0 THEN pos ELSE 1]

\* the loop over row.values: a present value is written to its global cell
RECURSIVE WriteValues(_, _, _, _)
WriteValues(entry, values, cm, local_idx) ==
    IF local_idx > Len(values) THEN entry
    ELSE IF local_idx <= Len(cm) /\ IsSome(values[local_idx])
    THEN WriteValues([entry EXCEPT ![cm[local_idx]] = values[local_idx]],
                     values, cm, local_idx + 1)
    ELSE WriteValues(entry, values, cm, local_idx + 1)

\* BTreeMap<String, Vec<Option<f64>>> as the sequence of its (key, value)
\* pairs in ascending key order
MapFind(map, ts) == position([k \in 1 .. Len(map) |-> map[k].ts = ts])

\* a map that keeps its entries in insertion order
MapEntryOrPush(map, ts, width) ==
    IF MapFind(map, ts) # 0 THEN map
    ELSE Append(map, [ts |-> ts, values |-> [i \in 1 .. width |-> None]])

\* merged_map.entry(ts).or_insert_with(|| vec![None; width])
MapEntryOrInsert(map, ts, width) ==
    IF MapFind(map, ts) # 0 THEN map
    ELSE LET before == SelectSeq(map, LAMBDA e : StrLess(e.ts, ts))
             after  == SelectSeq(map, LAMBDA e : ~StrLess(e.ts, ts))
         IN  before \o <<[ts |-> ts, values |-> [i \in 1 .. width |-> None]]>>
                    \o after

FoldRow(map, row, cm, width) ==
    IF IsSome(row.timestamp)
    THEN LET ts == Unwrap(row.timestamp)
             m  == MapEntryOrInsert(map, ts, width)
             k  == MapFind(m, ts)
         IN  [m EXCEPT ![k].values = WriteValues(m[k].values, row.values, cm, 1)]
    ELSE map

RECURSIVE FoldRows(_, _, _, _, _)
FoldRows(map, rows, r, cm, width) ==
    IF r > Len(rows) THEN map
    ELSE FoldRows(FoldRow(map, rows[r], cm, width), rows, r + 1, cm, width)

RECURSIVE FoldDatasets(_, _, _, _)
FoldDatasets(map, datasets, d, gh) ==
    IF d > Len(datasets) THEN map
    ELSE FoldDatasets(
             FoldRows(map, datasets[d].rows, 1,
                      col_map(datasets[d].headers, gh), Len(gh)),
             datasets, d + 1, gh)

merged_map(datasets, gh) == FoldDatasets(<<>>, datasets, 1, gh)

\* step 4: merged_map.into_iter() in key order
merged_rows(map) ==
    [k \in 1 .. Len(map) |->
        [timestamp |-> Some(map[k].ts), values |-> map[k].values]]

read_merge_csvs(fs, ps) ==
    IF Len(ps) = 0 THEN Err("No file paths provided")
    ELSE LET all == ReadAll(fs, ps, 1, <<>>)
         IN  IF ~all.ok THEN Err(all.err)
             ELSE LET gh == global_headers(all.datasets)
                  IN  Ok([headers |-> gh,
                          rows    |-> merged_rows(merged_map(all.datasets, gh))])

-----------------------------------------------------------------------------
(* lib.rs: calculate_new_sensor, as a function of the table (the body      *)
(* between taking the lock and returning).  A SensorOperationConfig is     *)
(* [mode, single_op, multi_op, custom_name]; a SingleOperation is          *)
(* [op_type, value]; a MultiOperation is [op_type, base_sensor].           *)

\* v.powf(e) for the exponents the model uses, e = 0, 1, 2, ...:
\* powf(x, 0) is 1 for every x, NaN included
RECURSIVE FPowNat(_, _)
FPowNat(x, n) == IF n = 0 THEN F(1) ELSE FMul(x, FPowNat(x, n - 1))

powf(x, e) == FPowNat(x, e[1])

\* Display of an f64 with an integral value, and of NaN
FmtF64(x) == IF IsNaN(x) THEN "NaN" ELSE ToString(x[1])

\* format!("{:?}", sensors) of a Vec<String>
RECURSIVE DebugItems(_, _)
DebugItems(sensors, i) ==
    IF i > Len(sensors) THEN ""
    ELSE (IF i > 1 THEN ", " ELSE "") \o "\"" \o sensors[i] \o "\""
         \o DebugItems(sensors, i + 1)

DebugVec(sensors) == "[" \o DebugItems(sensors, 1) \o "]"

\* data.headers.iter().position(|h| h == sensor)
SensorIndex(headers, sensor) ==
    position([i \in 1 .. Len(headers) |-> headers[i] = sensor])

\* the first selected sensor that is no header, 0 when every one is found
FirstNotFound(headers, sensors) ==
    position([i \in 1 .. Len(sensors) |-> SensorIndex(headers, sensors[i]) = 0])

op_symbol(op_type) ==
    CASE op_type = "add"      -> "+"
      [] op_type = "subtract" -> "-"
      [] op_type = "multiply" -> "*"
      [] op_type = "divide"   -> "/"
      [] op_type = "power"    -> "^"
      [] OTHER                -> ""

op_name(op_type) ==
    CASE op_type = "sum"      -> "Sum"
      [] op_type = "mean"     -> "Avg"
      [] op_type = "median"   -> "Median"
      [] op_type = "product"  -> "Product"
      [] op_type = "subtract" -> "Diff"
      [] op_type = "divide"   -> "Ratio"
      [] OTHER                -> ""

\* the single-mode match on one cell
SingleValue(val, op) ==
    IF ~IsSome(val) THEN None
    ELSE LET v == Unwrap(val) IN
         CASE op.op_type = "add"      -> Some(FAdd(v, op.value))
           [] op.op_type = "subtract" -> Some(FSub(v, op.value))
           [] op.op_type = "multiply" -> Some(FMul(v, op.value))
           [] op.op_type = "divide"   ->
                 IF FNonZero(op.value) THEN Some(FDiv(v, op.value)) ELSE None
           [] op.op_type = "power"    -> Some(powf(v, op.value))
           [] OTHER                   -> None

\* the loop "for (i, sensor_name) in sensors.iter().enumerate()" of the
\* subtract/divide branch, on the pair [base_val, others_sum]
RECURSIVE SplitBase(_, _, _, _, _, _)
SplitBase(row, sensors, indices, base_sensor, i, st) ==
    IF i > Len(sensors) THEN st
    ELSE LET val_opt == row.values[indices[i]] IN
         IF ~IsSome(val_opt)
         THEN SplitBase(row, sensors, indices, base_sensor, i + 1, st)
         ELSE IF sensors[i] = base_sensor
         THEN SplitBase(row, sensors, indices, base_sensor, i + 1,
                        [st EXCEPT !.base_val = val_opt])
         ELSE SplitBase(row, sensors, indices, base_sensor, i + 1,
                        [st EXCEPT !.others_sum = FAdd(@, Unwrap(val_opt))])

\* a subtract/divide that takes the first selected sensor for the base
BaseOthersValueFirstSelected(row, sensors, indices, op) ==
    LET st == SplitBase(row, sensors, indices, sensors[1], 1,
                        [base_val |-> None, others_sum |-> F(0)])
    IN  IF ~IsSome(st.base_val) THEN None
        ELSE IF op.op_type = "subtract"
        THEN Some(FSub(Unwrap(st.base_val), st.others_sum))
        ELSE IF FNonZero(st.others_sum)
        THEN Some(FDiv(Unwrap(st.base_val), st.others_sum))
        ELSE None

BaseOthersValue(row, sensors, indices, op) ==
    LET st == SplitBase(row, sensors, indices, Unwrap(op.base_sensor), 1,
                        [base_val |-> None, others_sum |-> F(0)])
    IN  IF ~IsSome(st.base_val) THEN None
        ELSE IF op.op_type = "subtract"
        THEN Some(FSub(Unwrap(st.base_val), st.others_sum))
        ELSE IF FNonZero(st.others_sum)
        THEN Some(FDiv(Unwrap(st.base_val), st.others_sum))
        ELSE None

\* valid_values: the present cells of the selected columns, in selection order
RECURSIVE ValidValues(_, _, _)
ValidValues(row, indices, i) ==
    IF i > Len(indices) THEN <<>>
    ELSE (IF IsSome(row.values[indices[i]])
          THEN <<Unwrap(row.values[indices[i]])>> ELSE <<>>)
         \o ValidValues(row, indices, i + 1)

RECURSIVE FSum(_)
FSum(vs) == IF Len(vs) = 0 THEN F(0) ELSE FAdd(Head(vs), FSum(Tail(vs)))

RECURSIVE FProduct(_)
FProduct(vs) == IF Len(vs) = 0 THEN F(1) ELSE FMul(Head(vs), FProduct(Tail(vs)))

\* sort_by(|a, b| a.partial_cmp(b).unwrap()): with two or more values every
\* value is compared, so a NaN among them makes the unwrap panic
SortPanics(vs) == Len(vs) >= 2 /\ \E i \in 1 .. Len(vs) : IsNaN(vs[i])

RECURSIVE InsertSorted(_, _)
InsertSorted(sorted, x) ==
    IF Len(sorted) = 0 THEN <<x>>
    ELSE IF partial_cmp(x, Head(sorted)) = "lt" THEN <<x>> \o sorted
    ELSE <<Head(sorted)>> \o InsertSorted(Tail(sorted), x)

RECURSIVE Sorted(_)
Sorted(vs) ==
    IF Len(vs) = 0 THEN <<>>
    ELSE InsertSorted(Sorted(SubSeq(vs, 1, Len(vs) - 1)), vs[Len(vs)])

Median(vs) ==
    LET s   == Sorted(vs)
        mid == Len(s) \div 2
    IN  IF Len(s) % 2 = 0 THEN FDiv(FAdd(s[mid], s[mid + 1]), F(2))
        ELSE s[mid + 1]

AggregateValue(row, indices, op) ==
    LET valid_values == ValidValues(row, indices, 1) IN
    IF Len(valid_values) = 0 THEN None
    ELSE CASE op.op_type = "sum"     -> Some(FSum(valid_values))
           [] op.op_type = "mean"    ->
                 Some(FDiv(FSum(valid_values), F(Len(valid_values))))
           [] op.op_type = "product" -> Some(FProduct(valid_values))
           [] op.op_type = "median"  -> Some(Median(valid_values))
           [] OTHER                  -> None

\* whether computing the new value of this row panics
RowPanics(row, indices, config) ==
    /\ config.mode = "multi"
    /\ Unwrap(config.multi_op).op_type = "median"
    /\ SortPanics(ValidValues(row, indices, 1))

\* the value pushed onto one row by the calculation loop
NewValue(row, sensors, indices, config) ==
    IF config.mode = "single"
    THEN SingleValue(row.values[indices[1]], Unwrap(config.single_op))
    ELSE IF Unwrap(config.multi_op).op_type \in {"subtract", "divide"}
    THEN BaseOthersValue(row, sensors, indices, Unwrap(config.multi_op))
    ELSE AggregateValue(row, indices, Unwrap(config.multi_op))

\* the first configuration error the function returns, "" when there is none
ConfigError(headers, sensors, config) ==
    IF Len(sensors) = 0 THEN "No sensors selected"
    ELSE IF FirstNotFound(headers, sensors) # 0
    THEN "Sensor not found: " \o sensors[FirstNotFound(headers, sensors)]
    ELSE IF config.mode = "single"
    THEN IF Len(sensors) # 1 THEN "Single mode requires exactly one sensor"
         ELSE IF ~IsSome(config.single_op) THEN "Missing singleOp config"
         ELSE IF op_symbol(Unwrap(config.single_op).op_type) = ""
         THEN "Invalid single operation type"
         ELSE ""
    ELSE IF config.mode = "multi"
    THEN IF ~IsSome(config.multi_op) THEN "Missing multiOp config"
         ELSE IF op_name(Unwrap(config.multi_op).op_type) = ""
         THEN "Invalid multi operation type"
         ELSE IF Unwrap(config.multi_op).op_type \in {"subtract", "divide"}
                 /\ ~IsSome(Unwrap(config.multi_op).base_sensor)
         THEN "Missing base sensor for subtract/divide"
         ELSE ""
    ELSE "Invalid mode"

default_name(sensors, config) ==
    IF config.mode = "single"
    THEN sensors[1] \o " " \o op_symbol(Unwrap(config.single_op).op_type)
         \o " " \o FmtF64(Unwrap(config.single_op).value)
    ELSE LET op == Unwrap(config.multi_op) IN
         IF op.op_type \in {"subtract", "divide"}
         THEN op_name(op.op_type) \o "(" \o Unwrap(op.base_sensor) \o ", others)"
         ELSE op_name(op.op_type) \o "(" \o DebugVec(sensors) \o ")"

new_sensor_name(sensors, config) ==
    IF IsSome(config.custom_name) /\ Trim(Unwrap(config.custom_name)) # ""
    THEN Unwrap(config.custom_name)
    ELSE default_name(sensors, config)

\* rows 1 .. upto - 1 with their new value pushed, the others untouched
PushValues(data, sensors, indices, config, upto) ==
    [k \in 1 .. Len(data.rows) |->
        IF k < upto
        THEN [data.rows[k] EXCEPT !.values =
                 Append(@, NewValue(data.rows[k], sensors, indices, config))]
        ELSE data.rows[k]]

\* [outcome, err, data, name]: outcome "ok" with the table after the call
\* and the name returned; "err" with the message and the table after the
\* call; "panic" with the table as the unwinding leaves it
calculate_new_sensor(data, sensors, config) ==
    LET e == ConfigError(data.headers, sensors, config) IN
    IF e # ""
    THEN [outcome |-> "err", err |-> e, data |-> data, name |-> ""]
    ELSE LET indices == [i \in 1 .. Len(sensors) |->
                            SensorIndex(data.headers, sensors[i])]
             p == position([k \in 1 .. Len(data.rows) |->
                              RowPanics(data.rows[k], indices, config)])
         IN  IF p # 0
             THEN [outcome |-> "panic", err |-> "",
                   data |-> [data EXCEPT !.rows =
                                PushValues(data, sensors, indices, config, p)],
                   name |-> ""]
             ELSE [outcome |-> "ok", err |-> "",
                   data |-> [headers |-> Append(data.headers,
                                           new_sensor_name(sensors, config)),
                             rows |-> PushValues(data, sensors, indices, config,
                                                 Len(data.rows) + 1)],
                   name |-> new_sensor_name(sensors, config)]

-----------------------------------------------------------------------------
(* lib.rs: the commands around AppState(Mutex<Option<SessionData>>).       *)
(* load_csv reads and merges before it takes the lock, so it is two steps; *)
(* get_loaded_paths and calculate_new_sensor run under the lock from       *)
(* their first line to their return, so each is one step; get_data holds   *)
(* the lock while it emits, one step for each window.emit.                 *)

CHUNK_SIZE == 5000

MaxDerived == 1

Workers == {"w1", "w2"}

PoisonError == "poisoned lock: another task failed inside"

\* ret: what the last command that returned has returned (name for
\* calculate_new_sensor, paths for get_loaded_paths, headers and total_rows
\* for load_csv), with the arguments of a calculate_new_sensor call
NoRet ==
    [op |-> "", status |-> "none", err |-> "", name |-> "", paths |-> <<>>,
     headers |-> <<>>, total_rows |-> 0, sensors |-> <<>>, config |-> None]

RetErr(op, msg) == [NoRet EXCEPT !.op = op, !.status = "err", !.err = msg]

RetOk(op) == [NoRet EXCEPT !.op = op, !.status = "ok"]

\* a lock that a running get_data does not hold
LockNeverHeld == TRUE

\* state.0.lock() succeeds at once: no get_data holds the lock
LockFree == stream = None

InitSessionVars ==
    /\ session = None
    /\ poisoned = FALSE
    /\ loading = [w \in Workers |-> None]
    /\ stream = None
    /\ events = <<>>
    /\ ret = NoRet
    /\ last_loaded = <<>>

\* load_csv, line 16: read_merge_csvs(paths)? returns the error
LoadCsvFail(w, ps) ==
    /\ loading[w] = None
    /\ LET r == read_merge_csvs(disk, ps) IN
       /\ ~r.ok
       /\ ret' = RetErr("load_csv", r.err)
    /\ UNCHANGED <<disk, mergeVars, session, poisoned, loading, stream, events,
                   last_loaded>>

\* load_csv, lines 16-20: the table is read and its metadata built
LoadCsvRead(w, ps) ==
    /\ loading[w] = None
    /\ LET r == read_merge_csvs(disk, ps) IN
       /\ r.ok
       /\ loading' = [loading EXCEPT ![w] = Some([paths |-> ps, data |-> r.data])]
    /\ UNCHANGED <<disk, mergeVars, session, poisoned, stream, events, ret,
                   last_loaded>>

\* a load_csv that replaces the table but keeps the paths of a session that
\* is there
LoadCsvStoreTableOnly(w) ==
    /\ loading[w] # None
    /\ LockFree
    /\ loading' = [loading EXCEPT ![w] = None]
    /\ IF poisoned
       THEN /\ ret' = RetErr("load_csv", PoisonError)
            /\ UNCHANGED <<session, last_loaded>>
       ELSE LET call == Unwrap(loading[w]) IN
            /\ session' = Some([data  |-> call.data,
                                paths |-> IF session = None THEN call.paths
                                          ELSE Unwrap(session).paths])
            /\ ret' = [RetOk("load_csv") EXCEPT
                          !.headers = call.data.headers,
                          !.total_rows = Len(call.data.rows)]
            /\ last_loaded' = call.paths
    /\ UNCHANGED <<disk, mergeVars, poisoned, stream, events>>

\* load_csv, lines 22-25: lock, replace the session, return the metadata
LoadCsvStore(w) ==
    /\ loading[w] # None
    /\ LockFree
    /\ loading' = [loading EXCEPT ![w] = None]
    /\ IF poisoned
       THEN /\ ret' = RetErr("load_csv", PoisonError)
            /\ UNCHANGED <<session, last_loaded>>
       ELSE LET call == Unwrap(loading[w]) IN
            /\ session' = Some([data |-> call.data, paths |-> call.paths])
            /\ ret' = [RetOk("load_csv") EXCEPT
                          !.headers = call.data.headers,
                          !.total_rows = Len(call.data.rows)]
            /\ last_loaded' = call.paths
    /\ UNCHANGED <<disk, mergeVars, poisoned, stream, events>>

get_loaded_paths ==
    /\ LockFree
    /\ ret' = IF poisoned THEN RetErr("get_loaded_paths", PoisonError)
              ELSE IF session = None THEN RetOk("get_loaded_paths")
              ELSE [RetOk("get_loaded_paths") EXCEPT
                       !.paths = Unwrap(session).paths]
    /\ UNCHANGED <<disk, mergeVars, session, poisoned, loading, stream, events,
                   last_loaded>>

\* the columns the live table has beyond those of its load (the loaded
\* headers are read_merge_csvs' step 2 on the header rows of the files)
DerivedCount ==
    IF session = None THEN 0
    ELSE LET ps == Unwrap(session).paths
             hs == [i \in 1 .. Len(ps) |->
                       [headers |-> header_list(disk[ps[i]]), rows |-> <<>>]]
         IN  Len(Unwrap(session).data.headers) - Len(global_headers(hs))

\* calculate_new_sensor, lines 215-216: the lock or the session is missing
CalculateNoSession ==
    /\ LockFree
    /\ poisoned \/ session = None
    /\ ret' = RetErr("calculate_new_sensor",
                     IF poisoned THEN PoisonError ELSE "No data loaded")
    /\ UNCHANGED <<disk, mergeVars, session, poisoned, loading, stream, events,
                   last_loaded>>

\* calculate_new_sensor, lines 217-386, on the live table
CalculateNewSensor(sensors, config) ==
    /\ LockFree
    /\ ~poisoned
    /\ session # None
    /\ LET r == calculate_new_sensor(Unwrap(session).data, sensors, config) IN
       /\ r.outcome = "ok" => DerivedCount < MaxDerived
       /\ session' = Some([Unwrap(session) EXCEPT !.data = r.data])
       /\ poisoned' = (r.outcome = "panic")
       /\ ret' = [NoRet EXCEPT
                     !.op = "calculate_new_sensor",
                     !.status = r.outcome,
                     !.err = r.err,
                     !.name = r.name,
                     !.sensors = sensors,
                     !.config = Some(config)]
    /\ UNCHANGED <<disk, mergeVars, loading, stream, events, last_loaded>>

\* get_data, lines 43-44: the lock or the session is missing
GetDataNoSession ==
    /\ LockFree
    /\ poisoned \/ session = None
    /\ ret' = RetErr("get_data",
                     IF poisoned THEN PoisonError ELSE "No data loaded")
    /\ UNCHANGED <<disk, mergeVars, session, poisoned, loading, stream, events,
                   last_loaded>>

\* the indices of the requested sensors that are headers, in request order
RECURSIVE RequestedIndices(_, _, _)
RequestedIndices(headers, sensors, i) ==
    IF i > Len(sensors) THEN <<>>
    ELSE (IF SensorIndex(headers, sensors[i]) # 0
          THEN <<SensorIndex(headers, sensors[i])>> ELSE <<>>)
         \o RequestedIndices(headers, sensors, i + 1)

\* a chunking that leaves out the rows after the last whole chunk
ChunkCountWholeOnly(n) == n \div CHUNK_SIZE

\* data.rows.chunks(CHUNK_SIZE): the number of chunks of n rows, and the
\* first and last row of chunk c
ChunkCount(n) == (n + CHUNK_SIZE - 1) \div CHUNK_SIZE

ChunkFirst(c) == (c - 1) * CHUNK_SIZE + 1

ChunkLast(c, n) == IF c * CHUNK_SIZE < n THEN c * CHUNK_SIZE ELSE n

\* the closure of chunk.iter().map: one row projected on the indices
ProjectRow(row, indices) ==
    [timestamp |-> row.timestamp,
     values    |-> [k \in 1 .. Len(indices) |->
                       IF indices[k] <= Len(row.values)
                       THEN row.values[indices[k]] ELSE None]]

ChunkEvent(data, sensors, indices, c) ==
    [kind    |-> "data-stream-chunk",
     headers |-> sensors,
     rows    |-> [k \in 1 .. (ChunkLast(c, Len(data.rows)) - ChunkFirst(c) + 1) |->
                     ProjectRow(data.rows[ChunkFirst(c) + k - 1], indices)]]

EndEvent == [kind |-> "data-stream-end", headers |-> <<>>, rows |-> <<>>]

\* get_data, lines 43-53: lock, find the indices
GetDataStart(sensors) ==
    /\ LockFree
    /\ ~poisoned
    /\ session # None
    /\ stream' = Some([sensors |-> sensors,
                       indices |-> RequestedIndices(Unwrap(session).data.headers,
                                                    sensors, 1),
                       chunk   |-> 1,
                       ended   |-> FALSE])
    /\ events' = <<>>
    /\ ret' = [NoRet EXCEPT !.op = "get_data", !.status = "running"]
    /\ UNCHANGED <<disk, mergeVars, session, poisoned, loading, last_loaded>>

\* get_data, lines 62-95: one turn of the loop over the chunks
GetDataEmitChunk ==
    /\ stream # None
    /\ LET st == Unwrap(stream)
           data == Unwrap(session).data IN
       /\ ~st.ended
       /\ st.chunk <= ChunkCount(Len(data.rows))
       /\ events' = Append(events,
                           ChunkEvent(data, st.sensors, st.indices, st.chunk))
       /\ stream' = Some([st EXCEPT !.chunk = @ + 1])
    /\ UNCHANGED <<disk, mergeVars, session, poisoned, loading, ret, last_loaded>>

\* get_data, lines 98-100: the end signal, after the last chunk
GetDataEmitEnd ==
    /\ stream # None
    /\ LET st == Unwrap(stream) IN
       /\ ~st.ended
       /\ st.chunk > ChunkCount(Len(Unwrap(session).data.rows))
       /\ events' = Append(events, EndEvent)
       /\ stream' = Some([st EXCEPT !.ended = TRUE])
    /\ UNCHANGED <<disk, mergeVars, session, poisoned, loading, ret, last_loaded>>

\* get_data, lines 91 and 100: window.emit fails and the error is returned
GetDataEmitFail ==
    /\ stream # None
    /\ ~Unwrap(stream).ended
    /\ stream' = None
    /\ events' = <<>>
    /\ ret' = RetErr("get_data", "emit failed")
    /\ UNCHANGED <<disk, mergeVars, session, poisoned, loading, last_loaded>>

\* get_data, line 102: Ok(()), and the lock is released
GetDataReturn ==
    /\ stream # None
    /\ Unwrap(stream).ended
    /\ stream' = None
    /\ events' = <<>>
    /\ ret' = RetOk("get_data")
    /\ UNCHANGED <<disk, mergeVars, session, poisoned, loading, last_loaded>>

-----------------------------------------------------------------------------
(* The files of the model.  A file is [kind, headers, rows]: kind "ok", or *)
(* "noopen" (File::open fails), or "badheader" (rdr.headers() fails);      *)
(* headers the raw header row; rows the raw records, each a sequence of    *)
(* field texts.                                                            *)

MaxRows == 2

CsvFile(headers, rows) == [kind |-> "ok", headers |-> headers, rows |-> rows]

NoFile == [kind |-> "noopen", headers |-> <<>>, rows |-> <<>>]

BadHeaderFile == [kind |-> "badheader", headers |-> <<>>, rows |-> <<>>]

\* the header rows of the files of one merge, file 1 first
HeaderConfigs ==
    { << <<"Time", "A", "B">> >>,
      << <<"Time", "A", "B">>, <<"Timestamp", "B", "C">> >>,
      << <<"A", "B">> >>,
      << <<"A", "B">>, <<"time", "B">> >>,
      << <<"a", "TIME", "A">> >>,
      << <<"Time", "A", "Timestamp">> >>,
      << <<"Time", "É", "é">> >>,
      << <<" A ", "time">> >> }

TsFields == {"", "t10", "t2"}

RawTsIdx(H) == timestamp_idx([i \in 1 .. Len(H) |-> Trim(H[i])])

\* rows as templates: "v" stands for a number that names the file and the
\* row it is written in (see Instantiate)
RegularRows(H) ==
    {row \in [1 .. Len(H) -> TsFields \cup {"v"}] :
        \A i \in 1 .. Len(H) :
            IF i = RawTsIdx(H) THEN row[i] \in TsFields
            ELSE row[i] \in {"", "v"}}

BaseRow(H, ts, num) ==
    [i \in 1 .. Len(H) |-> IF i = RawTsIdx(H) THEN ts ELSE num]

\* rows whose fields are not plain numbers (numeric fields take the texts
\* of alt in turn), rows with a padded or blank timestamp, and rows with one
\* field too few or too many
OddRow(H, ts, alt) ==
    [i \in 1 .. Len(H) |->
        IF i = RawTsIdx(H) THEN ts ELSE alt[1 + (i % Len(alt))]]

SpecialRows(H) ==
    {OddRow(H, "t2", <<"x", "NaN">>),
     OddRow(H, " t1", <<" 7", BadUtf8>>),
     BaseRow(H, " ", "v"),
     SubSeq(BaseRow(H, "t2", "v"), 1, Len(H) - 1),
     Append(BaseRow(H, "t2", "v"), "v")}

RowChoices(H) == RegularRows(H) \cup SpecialRows(H)

Instantiate(rows, f) ==
    [r \in 1 .. Len(rows) |->
        [i \in 1 .. Len(rows[r]) |->
            IF rows[r][i] = "v" THEN ToString(10 * f + r) ELSE rows[r][i]]]

Paths == {"p1", "p2"}

\* the end-to-end example of the specification (section 8)
ExampleDisk ==
    [p \in Paths |->
        IF p = "p1"
        THEN CsvFile(<<"Time", "A", "B">>,
                     << <<"t1", "1", "2">>, <<"t2", "3", "4">> >>)
        ELSE CsvFile(<<"Timestamp", "B", "C">>, << <<"t1", "20", "5">> >>)]

\* inputs on which the merge fails before it reads a data row
FailingInputs ==
    { [disk |-> ExampleDisk, paths |-> <<>>],
      [disk |-> [ExampleDisk EXCEPT !["p2"] = NoFile], paths |-> <<"p1", "p2">>],
      [disk |-> [ExampleDisk EXCEPT !["p1"] = BadHeaderFile],
       paths |-> <<"p1", "p2">>] }

NotCalled == [called |-> FALSE, res |-> Err("")]

Called(res) == [called |-> TRUE, res |-> res]

InitMerge ==
    /\ InitSessionVars
    /\ parsed = NotCalled
    /\ merged = NotCalled
    /\ \/ \E cfg \in HeaderConfigs :
          \E n1 \in 0 .. MaxRows :
          \E n2 \in (IF Len(cfg) = 2 THEN 0 .. (MaxRows - n1) ELSE {0}) :
          \E r1 \in [1 .. n1 -> RowChoices(cfg[1])] :
          \E r2 \in [1 .. n2 -> RowChoices(cfg[Len(cfg)])] :
             /\ disk = [p \in Paths |->
                          IF p = "p1" THEN CsvFile(cfg[1], Instantiate(r1, 1))
                          ELSE IF Len(cfg) = 2
                               THEN CsvFile(cfg[2], Instantiate(r2, 2))
                               ELSE NoFile]
             /\ paths = [i \in 1 .. Len(cfg) |-> IF i = 1 THEN "p1" ELSE "p2"]
       \/ disk = ExampleDisk /\ paths = <<"p1", "p2">>
       \/ \E inp \in FailingInputs : disk = inp.disk /\ paths = inp.paths

\* read_csv(paths[0])
ParseCall ==
    /\ ~parsed.called
    /\ Len(paths) >= 1
    /\ parsed' = Called(read_csv(disk[paths[1]]))
    /\ UNCHANGED <<disk, paths, merged, sessionVars>>

\* read_merge_csvs(paths)
MergeCall ==
    /\ ~merged.called
    /\ parsed.called \/ Len(paths) = 0
    /\ merged' = Called(read_merge_csvs(disk, paths))
    /\ UNCHANGED <<disk, paths, parsed, sessionVars>>

NextMerge == ParseCall \/ MergeCall

SpecMerge == InitMerge /\ [][NextMerge]_vars

-----------------------------------------------------------------------------
(* The session: the commands above, called in any order and interleaving,  *)
(* on a disk of two sensor files and one path that cannot be opened.       *)

SessionDisk ==
    [p \in {"f1", "f2", "bad"} |->
        CASE p = "f1" ->
               CsvFile(<<"Time", "B", "C", "D">>,
                       << <<"t1", "10", "3", "2">>,
                          <<"t2", "", "3", "2">>,
                          <<"t3", "6", "", "x">>,
                          <<"t4", "4", "3", "-3">>,
                          <<"t5", "NaN", "1", "">> >>)
          [] p = "f2" ->
               CsvFile(<<"timestamp", "D", "A">>,
                       << <<"t10", "", "9">>, <<"t1", "7", "8">> >>)
          [] OTHER -> NoFile]

LoadRequests == {<<>>, <<"bad">>, <<"f1">>, <<"f1", "f2">>, <<"f1", "bad">>}

SingleOp(t, v) == Some([op_type |-> t, value |-> F(v)])

MultiOp(t, base) == Some([op_type |-> t, base_sensor |-> base])

Config(mode, single_op, multi_op, custom_name) ==
    [mode |-> mode, single_op |-> single_op, multi_op |-> multi_op,
     custom_name |-> custom_name]

Call(sensors, config) == [sensors |-> sensors, config |-> config]

\* calls that the validation rejects, one for each message
RejectedCalls ==
    { Call(<<>>, Config("single", SingleOp("add", 2), None, None)),
      Call(<<"B", "Z">>, Config("multi", None, MultiOp("sum", None), None)),
      Call(<<"B", "C">>, Config("single", SingleOp("add", 2), None, None)),
      Call(<<"B">>, Config("single", None, MultiOp("sum", None), None)),
      Call(<<"B">>, Config("single", SingleOp("sqrt", 2), None, None)),
      Call(<<"B", "C">>, Config("multi", SingleOp("add", 2), None, None)),
      Call(<<"B", "C">>, Config("multi", None, MultiOp("max", None), None)),
      Call(<<"B", "C">>, Config("both", SingleOp("add", 2), MultiOp("sum", None),
                                None)),
      Call(<<"B", "C", "D">>, Config("multi", None, MultiOp("subtract", None),
                                     None)) }

SingleCalls ==
    { Call(<<"B">>, Config("single", SingleOp(t, 2), None, None)) :
        t \in {"add", "subtract", "multiply", "divide", "power"} }
    \cup { Call(<<"B">>, Config("single", SingleOp("divide", 0), None, None)),
           Call(<<"B">>, Config("single", SingleOp("add", 2), None, Some(" "))),
           Call(<<"B">>, Config("single", SingleOp("add", 2), None, Some("b"))) }

AggregateCalls ==
    { Call(<<"B", "C", "D">>, Config("multi", None, MultiOp(t, None), None)) :
        t \in {"sum", "mean", "median", "product"} }
    \cup { Call(<<"D", "C">>, Config("multi", None, MultiOp("median", None), None)),
           Call(<<"C", "D">>, Config("multi", None, MultiOp("sum", None),
                                     Some("C"))) }

BaseCalls ==
    { Call(<<"B", "C", "D">>, Config("multi", None, MultiOp(t, Some("B")), None)) :
        t \in {"subtract", "divide"} }
    \cup { Call(<<"C", "B", "C">>, Config("multi", None,
                                          MultiOp("subtract", Some("B")), None)),
           Call(<<"C", "D">>, Config("multi", None,
                                     MultiOp("divide", Some("B")), None)) }

CalcCalls == RejectedCalls \cup SingleCalls \cup AggregateCalls \cup BaseCalls

\* the calls of the specification that interleaves every command
FewCalls ==
    { Call(<<"B", "Z">>, Config("multi", None, MultiOp("sum", None), None)),
      Call(<<"B">>, Config("single", SingleOp("add", 2), None, None)),
      Call(<<"B", "C", "D">>, Config("multi", None, MultiOp("median", None), None)) }

GetRequests == {<<>>, <<"B", "C">>, <<"D", "Z", "B">>}

Init ==
    /\ disk = SessionDisk
    /\ paths = <<>>
    /\ parsed = NotCalled
    /\ merged = NotCalled
    /\ InitSessionVars

\* every command, from two workers
Next ==
    \/ \E w \in Workers : \E ps \in LoadRequests : LoadCsvFail(w, ps)
    \/ \E w \in Workers : \E ps \in LoadRequests : LoadCsvRead(w, ps)
    \/ \E w \in Workers : LoadCsvStore(w)
    \/ get_loaded_paths
    \/ CalculateNoSession
    \/ \E c \in FewCalls : CalculateNewSensor(c.sensors, c.config)
    \/ GetDataNoSession
    \/ \E sensors \in GetRequests : GetDataStart(sensors)
    \/ GetDataEmitChunk
    \/ GetDataEmitEnd
    \/ GetDataEmitFail
    \/ GetDataReturn

Spec == Init /\ [][Next]_vars

\* load_csv and calculate_new_sensor, called one after the other
NextCalc ==
    \/ \E ps \in LoadRequests : LoadCsvFail("w1", ps)
    \/ \E ps \in LoadRequests : LoadCsvRead("w1", ps)
    \/ LoadCsvStore("w1")
    \/ CalculateNoSession
    \/ \E c \in CalcCalls : CalculateNewSensor(c.sensors, c.config)

SpecCalc == Init /\ [][NextCalc]_vars

-----------------------------------------------------------------------------
(* get_data on tables around the chunk size.  The session holds the table  *)
(* that load_csv stores for one file with the header row Time,B and n      *)
(* rows, timestamps ascending, or no table at all.                         *)

StreamSizes == {0, 1, 4999, 5000, 5001, 9999, 10000, 10001, 12000}

\* the timestamp of row k: six digits, so text order is row order
StreamTimestamp(k) == ToString(100000 + k)

StreamTable(n) ==
    [headers |-> <<"Time", "B">>,
     rows    |-> [k \in 1 .. n |->
                    [timestamp |-> Some(StreamTimestamp(k)),
                     values    |-> <<None, Some(F(k % 7))>>]]]

StreamRequests == {<<>>, <<"B">>, <<"Z", "B">>}

InitStream ==
    /\ disk = SessionDisk
    /\ paths = <<>>
    /\ parsed = NotCalled
    /\ merged = NotCalled
    /\ poisoned = FALSE
    /\ loading = [w \in Workers |-> None]
    /\ stream = None
    /\ events = <<>>
    /\ ret = NoRet
    /\ \/ session = None /\ last_loaded = <<>>
       \/ \E n \in StreamSizes :
             /\ session = Some([data |-> StreamTable(n), paths |-> <<"big">>])
             /\ last_loaded = <<"big">>

NextStream ==
    \/ GetDataNoSession
    \/ \E sensors \in StreamRequests : GetDataStart(sensors)
    \/ GetDataEmitChunk
    \/ GetDataEmitEnd
    \/ GetDataEmitFail
    \/ GetDataReturn

SpecStream == InitStream /\ [][NextStream]_vars

-----------------------------------------------------------------------------
(* Properties of read_csv and read_merge_csvs, checked under SpecMerge.    *)

MergeOk == merged.called /\ merged.res.ok

\* the parsed per-file tables the merge folds, in caller-supplied order
InputTables == [d \in 1 .. Len(paths) |-> read_csv(disk[paths[d]]).data]

\* the global column a local header belongs to by its name: slot 1 for a
\* timestamp header, else the global header equal to it up to letter case
ColumnOf(h, gh) ==
    IF is_timestamp(h) THEN 1
    ELSE position([g \in 1 .. Len(gh) |->
                      ~is_timestamp(gh[g]) /\ to_lowercase(gh[g]) = to_lowercase(h)])

\* the cells <<file, row, local column>> that supply a present value for
\* global column g at timestamp ts
Suppliers(ts, g, gh) ==
    {c \in UNION {UNION {{<<d, r, j>> : j \in 1 .. Len(InputTables[d].rows[r].values)} :
                     r \in 1 .. Len(InputTables[d].rows)} :
                     d \in 1 .. Len(paths)} :
        LET t == InputTables[c[1]] IN
        /\ t.rows[c[2]].timestamp = Some(ts)
        /\ c[3] <= Len(t.headers)
        /\ IsSome(t.rows[c[2]].values[c[3]])
        /\ ColumnOf(t.headers[c[3]], gh) = g}

Later(a, b) ==
    \/ a[1] > b[1]
    \/ a[1] = b[1] /\ a[2] > b[2]
    \/ a[1] = b[1] /\ a[2] = b[2] /\ a[3] > b[3]

LastPresent(ts, g, gh) ==
    LET S == Suppliers(ts, g, gh)
    IN  IF S = {} THEN None
        ELSE LET c == CHOOSE x \in S : \A y \in S : x = y \/ Later(x, y)
             IN  InputTables[c[1]].rows[c[2]].values[c[3]]

ExampleMerged ==
    [headers |-> <<"Time", "A", "B", "C">>,
     rows |-> << [timestamp |-> Some("t1"),
                  values |-> <<None, Some(F(1)), Some(F(20)), Some(F(5))>>],
                 [timestamp |-> Some("t2"),
                  values |-> <<None, Some(F(3)), Some(F(4)), None>>] >>]

\* C2: every merged cell holds the present value of the last contributing
\* row (files in the given order, rows in file order) that has a present
\* value for that column at that timestamp, and is missing when there is
\* none; the end-to-end example merges to ExampleMerged.
C2_PerCellLastPresentWins ==
    MergeOk =>
        LET t == merged.res.data IN
        /\ \A k \in 1 .. Len(t.rows) : \A g \in 1 .. Len(t.headers) :
              t.rows[k].values[g] =
                  LastPresent(Unwrap(t.rows[k].timestamp), g, t.headers)
        /\ (disk = ExampleDisk /\ paths = <<"p1", "p2">>) => t = ExampleMerged

\* the timestamps present in the input files: the non-blank fields of each
\* file's timestamp column
PresentTimestamps ==
    UNION {{disk[paths[d]].rows[r][RawTsIdx(disk[paths[d]].headers)] :
               r \in {q \in 1 .. Len(disk[paths[d]].rows) :
                        /\ RawTsIdx(disk[paths[d]].headers) # 0
                        /\ Trim(disk[paths[d]].rows[q]
                                   [RawTsIdx(disk[paths[d]].headers)]) # ""}} :
           d \in 1 .. Len(paths)}

\* the present values of the input rows that carry timestamp ts
ValuesAt(ts) ==
    UNION {UNION {{InputTables[d].rows[r].values[j] :
                      j \in {i \in 1 .. Len(InputTables[d].rows[r].values) :
                               IsSome(InputTables[d].rows[r].values[i])}} :
                  r \in {q \in 1 .. Len(InputTables[d].rows) :
                           InputTables[d].rows[q].timestamp = Some(ts)}} :
           d \in 1 .. Len(paths)}

\* C3: the merged rows are in strictly ascending timestamp order, there is
\* exactly one row for each present timestamp of the input files, and every
\* present cell of a row comes from an input row with that timestamp.
C3_SortedOneRowPerTimestamp ==
    MergeOk =>
        LET rows == merged.res.data.rows IN
        /\ \A k \in 1 .. Len(rows) : IsSome(rows[k].timestamp)
        /\ \A k \in 1 .. Len(rows) - 1 :
              StrLess(Unwrap(rows[k].timestamp), Unwrap(rows[k + 1].timestamp))
        /\ {Unwrap(rows[k].timestamp) : k \in 1 .. Len(rows)} = PresentTimestamps
        /\ \A k \in 1 .. Len(rows) : \A g \in 1 .. Len(rows[k].values) :
              IsSome(rows[k].values[g]) =>
                  rows[k].values[g] \in ValuesAt(Unwrap(rows[k].timestamp))

\* file 1 lists t2 before t10 and the merge returns t10 before t2
C3_Witness ==
    /\ MergeOk
    /\ Len(InputTables[1].rows) = 2
    /\ InputTables[1].rows[1].timestamp = Some("t2")
    /\ InputTables[1].rows[2].timestamp = Some("t10")
    /\ Len(merged.res.data.rows) = 2
    /\ merged.res.data.rows[1].timestamp = Some("t10")

Without(s, i) == [k \in 1 .. (IF i = 0 THEN Len(s) ELSE Len(s) - 1) |->
                     IF i = 0 \/ k < i THEN s[k] ELSE s[k + 1]]

\* a parsed table with its timestamp column moved to index 0 (a table
\* without timestamp column gets the column "timestamp")
Reordered(t) ==
    LET ti == timestamp_idx(t.headers) IN
    [headers |-> <<IF ti = 0 THEN "timestamp" ELSE t.headers[ti]>>
                     \o Without(t.headers, ti),
     rows |-> [k \in 1 .. Len(t.rows) |->
                  [timestamp |-> t.rows[k].timestamp,
                   values    |-> <<None>> \o Without(t.rows[k].values, ti)]]]

SingleFileCase ==
    Len(paths) = 1 /\ parsed.called /\ parsed.res.ok /\ MergeOk

\* C4 as stated: merging one file gives the table read_csv gives for it,
\* with the timestamp column moved to index 0.
C4_SingleFileMergeEqualsParse ==
    SingleFileCase => merged.res.data = Reordered(parsed.res.data)

\* one timestamp header, the other header names distinct up to letter case,
\* and every row with a present timestamp, in strictly ascending order
PlainSortedFile(t) ==
    /\ Cardinality({i \in 1 .. Len(t.headers) : is_timestamp(t.headers[i])}) = 1
    /\ \A i, j \in 1 .. Len(t.headers) :
          i # j => to_lowercase(t.headers[i]) # to_lowercase(t.headers[j])
    /\ \A k \in 1 .. Len(t.rows) : IsSome(t.rows[k].timestamp)
    /\ \A k \in 1 .. Len(t.rows) - 1 :
          StrLess(Unwrap(t.rows[k].timestamp), Unwrap(t.rows[k + 1].timestamp))

\* C4 (amended): merging one file whose headers hold exactly one timestamp
\* header and are otherwise distinct up to letter case, and whose rows all
\* carry a present timestamp in strictly ascending order, gives the table
\* read_csv gives for it with the timestamp column moved to index 0.
C4_SingleSortedFileMergeEqualsParse ==
    (SingleFileCase /\ PlainSortedFile(parsed.res.data))
        => merged.res.data = Reordered(parsed.res.data)

\* a two-row file whose timestamp column is not its first column
C4_Witness ==
    /\ SingleFileCase
    /\ PlainSortedFile(parsed.res.data)
    /\ timestamp_idx(parsed.res.data.headers) = 2
    /\ Len(parsed.res.data.rows) = 2
    /\ \A k \in 1 .. 2 : IsSome(parsed.res.data.rows[k].values[1])
    /\ merged.res.data = Reordered(parsed.res.data)

\* C7: once a file and its header row are readable, neither read_csv nor
\* read_merge_csvs fails, whatever the data rows hold.
C7_RowContentNeverErrors ==
    /\ (parsed.called /\ disk[paths[1]].kind = "ok") => parsed.res.ok
    /\ (merged.called /\ Len(paths) >= 1
          /\ \A d \in 1 .. Len(paths) : disk[paths[d]].kind = "ok")
        => merged.res.ok

-----------------------------------------------------------------------------
(* Properties of the session commands.                                     *)

LiveTable == Unwrap(session).data

\* C1: in every reachable state of the session, after any sequence of
\* load_csv and calculate_new_sensor calls, successful or failing, every row
\* of the live table has exactly as many values as the table has headers.
C1_RowWidthEqualsHeaderCount ==
    session # None =>
        \A k \in 1 .. Len(LiveTable.rows) :
            Len(LiveTable.rows[k].values) = Len(LiveTable.headers)

\* a step of calculate_new_sensor: it is the command that returns, and no
\* load_csv moves
CalculateStep ==
    /\ ret'.op = "calculate_new_sensor"
    /\ loading' = loading

\* the table t with one header and one value for each row appended, the
\* rows in their order
WholeColumnAppended(old, new) ==
    /\ Len(new.headers) = Len(old.headers) + 1
    /\ SubSeq(new.headers, 1, Len(old.headers)) = old.headers
    /\ Len(new.rows) = Len(old.rows)
    /\ \A k \in 1 .. Len(old.rows) :
          /\ new.rows[k].timestamp = old.rows[k].timestamp
          /\ Len(new.rows[k].values) = Len(old.rows[k].values) + 1
          /\ SubSeq(new.rows[k].values, 1, Len(old.rows[k].values))
                = old.rows[k].values

\* C6: calculate_new_sensor is all-or-nothing.  Whenever it reports an error
\* the live table's headers and every row's values are exactly as before the
\* call; whenever it succeeds exactly one header is appended and exactly one
\* value is appended to every row, in existing row order; and a call does
\* nothing else to the table: it appends the whole column or nothing.
C6_CalculateAllOrNothing ==
    [][CalculateStep =>
          /\ ret'.status = "err" => session' = session
          /\ ret'.status = "ok" =>
                /\ session # None /\ session' # None
                /\ Unwrap(session').paths = Unwrap(session).paths
                /\ WholeColumnAppended(LiveTable, Unwrap(session').data)
          /\ \/ session' = session
             \/ /\ session # None /\ session' # None
                /\ WholeColumnAppended(LiveTable, Unwrap(session').data)]_vars

\* C8: after any sequence of successful load_csv and calculate_new_sensor
\* calls, the live table's header names are pairwise distinct under
\* case-insensitive comparison, also after a derivation whose default or
\* custom name equals an existing header.
C8_HeadersDistinctIgnoringCase ==
    session # None =>
        \A i, j \in 1 .. Len(LiveTable.headers) :
            i < j => to_lowercase(LiveTable.headers[i])
                        # to_lowercase(LiveTable.headers[j])

\* the last call returned is a successful subtract or divide over operands
BaseCallReturned ==
    /\ session # None
    /\ ret.op = "calculate_new_sensor"
    /\ ret.status = "ok"
    /\ Unwrap(ret.config).mode = "multi"
    /\ Unwrap(Unwrap(ret.config).multi_op).op_type \in {"subtract", "divide"}

\* the cell of row k in the first column named h, before the new column
CellOf(k, h) ==
    LET hs == LiveTable.headers
        c  == CHOOSE i \in 1 .. Len(hs) - 1 :
                 /\ hs[i] = h
                 /\ \A j \in 1 .. i - 1 : hs[j] # h
    IN  LiveTable.rows[k].values[c]

\* the base's value in row k: the cell of the selected sensor that is the
\* designated base, missing when no selected sensor is the base
BaseValueOf(k) ==
    LET base == Unwrap(Unwrap(Unwrap(ret.config).multi_op).base_sensor)
    IN  IF \E i \in 1 .. Len(ret.sensors) : ret.sensors[i] = base
        THEN CellOf(k, base) ELSE None

\* the present values in row k of the selected sensors other than the base
OtherValuesOf(k) ==
    LET base == Unwrap(Unwrap(Unwrap(ret.config).multi_op).base_sensor)
        sel  == SelectSeq([i \in 1 .. Len(ret.sensors) |-> i],
                          LAMBDA i : /\ ret.sensors[i] # base
                                     /\ IsSome(CellOf(k, ret.sensors[i])))
    IN  [n \in 1 .. Len(sel) |-> Unwrap(CellOf(k, ret.sensors[sel[n]]))]

\* C10: for multi-operand subtract and divide, for every row: if the base
\* sensor's value is missing the new value is missing regardless of the other
\* sensors; otherwise subtract gives the base minus the sum of the present
\* values of the other selected sensors (missing ones count 0), and divide
\* gives the base divided by that sum, or missing when that sum is 0.  The
\* base is one of the selected sensors; when none of them is the base, its
\* value is missing in every row.
C10_BaseAgainstSumOfOthers ==
    BaseCallReturned =>
        \A k \in 1 .. Len(LiveTable.rows) :
            LET new == LiveTable.rows[k].values[Len(LiveTable.headers)]
                b   == BaseValueOf(k)
                sum == FSum(OtherValuesOf(k))
                sub == Unwrap(Unwrap(ret.config).multi_op).op_type = "subtract"
            IN  /\ ~IsSome(b) => new = None
                /\ (IsSome(b) /\ sub) => new = Some(FSub(Unwrap(b), sum))
                /\ (IsSome(b) /\ ~sub /\ sum = F(0)) => new = None
                /\ (IsSome(b) /\ ~sub /\ sum # F(0))
                      => new = Some(FDiv(Unwrap(b), sum))

\* base B against C and D, subtract: the row B = 10, C = 3, D = 2 gets 5, and
\* a row whose B is missing gets missing
C10_Witness ==
    /\ BaseCallReturned
    /\ ret.sensors = <<"B", "C", "D">>
    /\ Unwrap(ret.config).multi_op = MultiOp("subtract", Some("B"))
    /\ \E k \in 1 .. Len(LiveTable.rows) :
          /\ CellOf(k, "B") = Some(F(10))
          /\ CellOf(k, "C") = Some(F(3))
          /\ CellOf(k, "D") = Some(F(2))
          /\ LiveTable.rows[k].values[Len(LiveTable.headers)] = Some(F(5))
    /\ \E k \in 1 .. Len(LiveTable.rows) :
          /\ CellOf(k, "B") = None
          /\ CellOf(k, "C") # None
          /\ LiveTable.rows[k].values[Len(LiveTable.headers)] = None

\* the table t is the table m of a load, possibly with derived columns (or
\* the cells of an unfinished one) after m's columns
ExtendsLoaded(t, m) ==
    /\ Len(t.headers) >= Len(m.headers)
    /\ SubSeq(t.headers, 1, Len(m.headers)) = m.headers
    /\ Len(t.rows) = Len(m.rows)
    /\ \A k \in 1 .. Len(m.rows) :
          /\ t.rows[k].timestamp = m.rows[k].timestamp
          /\ Len(t.rows[k].values) >= Len(m.rows[k].values)
          /\ SubSeq(t.rows[k].values, 1, Len(m.rows[k].values))
                = m.rows[k].values

\* the session holds the table and the paths of one successful load
SessionFromOneLoad ==
    session # None =>
        LET m == read_merge_csvs(disk, Unwrap(session).paths)
        IN  /\ m.ok
            /\ Unwrap(session).paths = last_loaded
            /\ ExtendsLoaded(LiveTable, m.data)

\* get_loaded_paths has returned the paths of the most recent successful
\* load, the empty list before any
LoadedPathsReturned ==
    (ret.op = "get_loaded_paths" /\ ret.status = "ok") =>
        /\ ret.paths = last_loaded
        /\ session = None => ret.paths = <<>>

\* a load_csv that returns an error leaves the session as it was
FailedLoadKeepsSession ==
    (ret'.op = "load_csv" /\ ret'.status = "err") => session' = session

\* C9: the session is replaced wholesale and never partially.  At every
\* reachable state, under any interleaving of concurrent load_csv calls, the
\* session is empty or holds a table and a path list that come from the same
\* successful load_csv call, the table possibly extended by derived columns;
\* a load_csv call that fails leaves the session's table and paths
\* unchanged; get_loaded_paths returns the paths of the most recent
\* successful load, the empty list before any load.
C9_SessionReplacedWholesale ==
    /\ [](SessionFromOneLoad /\ LoadedPathsReturned)
    /\ [][FailedLoadKeepsSession]_vars

\* two loads in flight: the session holds the first files' table under the
\* first load's paths, extended by a derived column, the other worker holds
\* the table it has read and not stored, and a third load has failed
C9_Witness ==
    /\ session # None
    /\ Unwrap(session).paths = <<"f1", "f2">>
    /\ Len(LiveTable.headers) = 6
    /\ \E w \in Workers :
          /\ loading[w] # None
          /\ Unwrap(loading[w]).paths = <<"f1">>
    /\ ret.op = "load_csv"
    /\ ret.status = "err"
    /\ ret.err = "open failed"

-----------------------------------------------------------------------------
(* Properties of the stream of get_data.                                   *)

\* the batches emitted so far by the running get_data call
Batches == SelectSeq(events, LAMBDA e : e.kind = "data-stream-chunk")

\* the rows emitted so far, batch after batch
RECURSIVE EmittedCount(_)
EmittedCount(c) ==
    IF c = 0 THEN 0 ELSE EmittedCount(c - 1) + Len(Batches[c].rows)

\* the batches are consecutive slices of the table, in row order: row k of
\* batch c is the table's row after all the rows of the batches before c
BatchesAreSlices ==
    \A c \in 1 .. Len(Batches) :
        /\ EmittedCount(c) <= Len(LiveTable.rows)
        /\ \A k \in 1 .. Len(Batches[c].rows) :
              Batches[c].rows[k].timestamp
                 = LiveTable.rows[EmittedCount(c - 1) + k].timestamp

\* every batch but possibly the last has CHUNK_SIZE rows, and none is empty
BatchSizes ==
    \A c \in 1 .. Len(Batches) :
        /\ Len(Batches[c].rows) >= 1
        /\ Len(Batches[c].rows) <= CHUNK_SIZE
        /\ c < Len(Batches) => Len(Batches[c].rows) = CHUNK_SIZE

\* one end signal, after the last batch, once every row is out
EndSignal ==
    LET ended == Unwrap(stream).ended IN
    /\ \A i \in 1 .. Len(events) :
          events[i].kind = "data-stream-end" <=> (ended /\ i = Len(events))
    /\ ended => /\ Len(events) = Len(Batches) + 1
                /\ EmittedCount(Len(Batches)) = Len(LiveTable.rows)

\* C5: a get_data call on a loaded session emits the table's rows as
\* contiguous, non-overlapping batches in original row order, every batch of
\* exactly CHUNK_SIZE (5000) rows except possibly the last, so that every row
\* is emitted exactly once; after the last batch exactly one data-stream-end
\* signal is emitted and no batch follows it.  12000 rows give batches of
\* 5000, 5000, 2000 and one end signal; no rows give no batch and one end
\* signal.
C5_BatchesPartitionTheTable ==
    stream # None => (BatchesAreSlices /\ BatchSizes /\ EndSignal)

\* the stream of a table of 12000 rows has ended: 5000, 5000, 2000, end
C5_Witness ==
    /\ stream # None
    /\ Unwrap(stream).ended
    /\ Len(LiveTable.rows) = 12000
    /\ Len(events) = 4
    /\ Len(events[1].rows) = 5000
    /\ Len(events[2].rows) = 5000
    /\ Len(events[3].rows) = 2000
    /\ events[4] = EndEvent

-----------------------------------------------------------------------------
(* Properties of get_data among the other commands.                        *)

\* while a get_data call is in flight, from its first line to its return,
\* no step changes the session
StreamHoldsTable == stream # None => session' = session

\* every batch the call in flight has emitted is a slice of the live table
\* as it is now: the timestamps and, for each index the call found, the
\* cells of the table's rows, the batches one after the other
BatchesFromLiveTable ==
    stream # None =>
        \A c \in 1 .. Len(Batches) :
            /\ EmittedCount(c) <= Len(LiveTable.rows)
            /\ \A k \in 1 .. Len(Batches[c].rows) :
                  LET row == LiveTable.rows[EmittedCount(c - 1) + k]
                      out == Batches[c].rows[k]
                      idx == Unwrap(stream).indices
                  IN  /\ out.timestamp = row.timestamp
                      /\ Len(out.values) = Len(idx)
                      /\ \A j \in 1 .. Len(idx) :
                            out.values[j] = row.values[idx[j]]

\* C11: access to the live table is serialized by the session lock, so a
\* get_data stream is atomic with respect to writers.  Under any
\* interleaving of a get_data call with calculate_new_sensor and load_csv
\* calls, every batch of the stream is projected from the same table state,
\* and no column append or session replacement takes effect between the
\* stream's first batch and its end signal.
C11_StreamAtomicAgainstWriters ==
    /\ []BatchesFromLiveTable
    /\ [][StreamHoldsTable]_vars

\* a get_data call has emitted a batch of a table with a derived column
\* while a load_csv call of other files has read its table and waits to
\* store it
C11_Witness ==
    /\ stream # None
    /\ Len(Batches) >= 1
    /\ Len(Batches[1].rows) >= 1
    /\ Len(LiveTable.headers) > 4
    /\ Unwrap(session).paths = <<"f1">>
    /\ \E w \in Workers :
          /\ loading[w] # None
          /\ Unwrap(loading[w]).paths = <<"f1", "f2">>

\* the requested names that are headers of the live table, in request order
RequestedPresent ==
    SelectSeq(Unwrap(stream).sensors,
              LAMBDA n : \E i \in 1 .. Len(LiveTable.headers) :
                            LiveTable.headers[i] = n)

\* the cell of a table row in the first column named h
RowCell(row, h) ==
    LET hs == LiveTable.headers
        c  == CHOOSE i \in 1 .. Len(hs) :
                 /\ hs[i] = h
                 /\ \A j \in 1 .. i - 1 : hs[j] # h
    IN  row.values[c]

\* C12: every batch emitted by get_data is a well-formed sub-table of the
\* requested columns.  Its header list holds exactly the requested names
\* that exist in the live table, in requested order (absent names are
\* dropped); every row of the batch has as many values as the batch has
\* headers; the k-th value of a row is the live table's cell for the k-th
\* batch header; the row's timestamp is unchanged.
C12_BatchIsSubTable ==
    stream # None =>
        \A c \in 1 .. Len(Batches) :
            /\ Batches[c].headers = RequestedPresent
            /\ \A k \in 1 .. Len(Batches[c].rows) :
                  LET row == LiveTable.rows[EmittedCount(c - 1) + k]
                      out == Batches[c].rows[k]
                  IN  /\ out.timestamp = row.timestamp
                      /\ Len(out.values) = Len(Batches[c].headers)
                      /\ \A j \in 1 .. Len(RequestedPresent) :
                            /\ j <= Len(out.values)
                            /\ out.values[j] = RowCell(row, RequestedPresent[j])

-----------------------------------------------------------------------------
(* The timestamp slot of a merged table.                                   *)

\* the first header of file 1 that is a timestamp name, else "timestamp"
CanonicalName ==
    LET hs == InputTables[1].headers
        ts == {i \in 1 .. Len(hs) : is_timestamp(hs[i])}
    IN  IF ts = {} THEN "timestamp"
        ELSE hs[CHOOSE i \in ts : \A j \in ts : i <= j]

\* the columns of input file d that read_csv parses as numbers: every
\* column but the file's timestamp column
NumericColumns(d) ==
    {i \in 1 .. Len(InputTables[d].headers) :
        i # timestamp_idx(InputTables[d].headers)}

\* C13: in every table read_merge_csvs produces, slot 0 is reserved for the
\* canonical timestamp column.  Header index 0 is the canonical timestamp
\* name; every row's value at index 0 is the missing placeholder; every
\* input column that is not its file's timestamp column maps to the global
\* index (>= 1) of its own header, so no number of an input column is
\* written into index 0.
C13_SlotZeroIsTimestampOnly ==
    MergeOk =>
        LET t == merged.res.data IN
        /\ t.headers[1] = CanonicalName
        /\ \A k \in 1 .. Len(t.rows) : t.rows[k].values[1] = None
        /\ \A d \in 1 .. Len(paths) : \A i \in NumericColumns(d) :
              LET g == col_map(InputTables[d].headers, t.headers)[i]
              IN  /\ g >= 2
                  /\ to_lowercase(t.headers[g])
                        = to_lowercase(InputTables[d].headers[i])

=============================================================================
